---- MODULE Spec2Model ----
(***************************************************************************)
(* Model of vixl_gui.py: the VIXL container written by VixlPacker.run, the *)
(* reader unpack_vixl, and the part of VixlWindow that starts the worker   *)
(* and receives its signals.                                               *)
(*                                                                         *)
(* Files are sequences of bytes (0..255).  Text (paths) is a sequence of   *)
(* Unicode code points; it becomes bytes only through Utf8Encode.          *)
(* Operators that can raise return a record with an ok field.              *)
(***************************************************************************)
EXTENDS Integers, Sequences, FiniteSets, TLC

\* ------------------------------------------------------------------ bounds
\* Largest number of entries in the window's file list.
MaxFiles == 2

\* --------------------------------------------------------------- constants
MAGIC == <<86, 73, 88, 76>>
VERSION == 1
FLAG_COMPRESSED == 1
\* Size of the header block (placeholder and final header).
HeaderSize == 32
\* Largest value struct format "B" accepts.
UByteMax == 255

\* ----------------------------------------------------------- small helpers
Min(a, b) == IF a < b THEN a ELSE b

Zeros(n) == [k \in 1..n |-> 0]

\* f.read(n) with the file position at pos (0-based): a short read at EOF.
ReadAt(file, pos, n) ==
  IF pos >= Len(file) THEN <<>>
  ELSE SubSeq(file, pos + 1, pos + Min(n, Len(file) - pos))

\* f.write(bytes) with the file position at pos (0-based, pos <= Len(file)).
WriteAt(file, pos, bytes) ==
  [k \in 1..(IF pos + Len(bytes) > Len(file) THEN pos + Len(bytes) ELSE Len(file)) |->
     IF k > pos /\ k <= pos + Len(bytes) THEN bytes[k - pos] ELSE file[k]]

RECURSIVE SumSeq(_)
SumSeq(s) == IF s = <<>> THEN 0 ELSE Head(s) + SumSeq(Tail(s))

\* ------------------------------------------------------------------ struct
\* PackB storing the low byte of a length that does not fit.
PackB_Wrapping(n) == [ok |-> TRUE, bytes |-> <<n % 256>>]

\* struct.pack("B", n): raises struct.error outside 0..255.
PackB(n) ==
  IF n >= 0 /\ n <= UByteMax THEN [ok |-> TRUE, bytes |-> <<n>>]
  ELSE [ok |-> FALSE, bytes |-> <<>>]

\* struct.pack("<H", n): raises struct.error outside 0..65535.
PackH(n) ==
  IF n >= 0 /\ n <= 65535 THEN [ok |-> TRUE, bytes |-> <<n % 256, n \div 256>>]
  ELSE [ok |-> FALSE, bytes |-> <<>>]

\* struct.pack("<I", n): raises struct.error outside 0..2^32-1.
PackI(n) ==
  IF n >= 0 /\ n \div 16777216 <= 255
  THEN [ok |-> TRUE,
        bytes |-> <<n % 256, (n \div 256) % 256, (n \div 65536) % 256, n \div 16777216>>]
  ELSE [ok |-> FALSE, bytes |-> <<>>]

\* struct.pack("<III", a, b, c)
PackIII(a, b, c) ==
  IF PackI(a).ok /\ PackI(b).ok /\ PackI(c).ok
  THEN [ok |-> TRUE, bytes |-> PackI(a).bytes \o PackI(b).bytes \o PackI(c).bytes]
  ELSE [ok |-> FALSE, bytes |-> <<>>]

\* struct.unpack("B", bs)[0]: raises struct.error unless bs has 1 byte.
UnpackB(bs) ==
  IF Len(bs) = 1 THEN [ok |-> TRUE, val |-> bs[1]] ELSE [ok |-> FALSE, val |-> 0]

\* struct.unpack("<H", bs)[0]
UnpackH(bs) ==
  IF Len(bs) = 2 THEN [ok |-> TRUE, val |-> bs[1] + 256 * bs[2]]
  ELSE [ok |-> FALSE, val |-> 0]

\* struct.unpack("<I", bs)[0]; the model only meets values below 2^31.
UnpackI(bs) ==
  IF Len(bs) = 4 /\ bs[4] < 128
  THEN [ok |-> TRUE, val |-> bs[1] + 256 * bs[2] + 65536 * bs[3] + 16777216 * bs[4]]
  ELSE [ok |-> FALSE, val |-> 0]

\* -------------------------------------------------------------------- zlib
\* Adler-32 of data as the four big-endian trailer bytes.
RECURSIVE AdlerB(_, _)
AdlerB(data, a) ==
  IF data = <<>> THEN 0
  ELSE LET a1 == (a + Head(data)) % 65521 IN (a1 + AdlerB(Tail(data), a1)) % 65521

Adler32(data) ==
  LET a == (1 + SumSeq(data)) % 65521
      b == AdlerB(data, 1)
  IN <<b \div 256, b % 256, a \div 256, a % 256>>

\* zlib.compress(data): a zlib stream (2-byte header, deflate body, Adler-32).
\* The deflate body is written as one final stored block, the encoding zlib
\* itself produces at level 0; every level decompresses to the same bytes.
Compress(data) ==
  <<120, 1>> \o <<1>> \o <<Len(data) % 256, Len(data) \div 256>>
  \o <<(65535 - Len(data)) % 256, (65535 - Len(data)) \div 256>>
  \o data \o Adler32(data)

\* zlib.decompress(bs): raises zlib.error on a bad header, a bad block, a
\* truncated stream or a checksum mismatch; bytes after the stream are ignored.
Decompress(bs) ==
  LET bad == [ok |-> FALSE, data |-> <<>>]
  IN IF Len(bs) < 7 THEN bad
     ELSE IF bs[1] % 16 # 8 \/ (bs[1] * 256 + bs[2]) % 31 # 0 THEN bad
     ELSE IF bs[3] # 1 THEN bad
     ELSE LET n == bs[4] + 256 * bs[5]
              nn == bs[6] + 256 * bs[7]
          IN IF n + nn # 65535 THEN bad
             ELSE IF Len(bs) < 7 + n + 4 THEN bad
             ELSE LET data == SubSeq(bs, 8, 7 + n)
                  IN IF SubSeq(bs, 8 + n, 11 + n) # Adler32(data) THEN bad
                     ELSE [ok |-> TRUE, data |-> data]

\* ------------------------------------------------------------------- UTF-8
\* str.encode("utf-8") for code points below 0x800.  The text is encoded
\* half by half (the encoding of a text is that of its parts in order); a
\* and b name the two halves.
RECURSIVE Utf8Encode(_)
Utf8Encode(s) ==
  IF s = <<>> THEN <<>>
  ELSE IF Len(s) = 1
       THEN (IF s[1] < 128 THEN <<s[1]>>
             ELSE <<192 + (s[1] \div 64), 128 + (s[1] % 64)>>)
  ELSE CHOOSE r \in {Utf8Encode(a) \o Utf8Encode(b) :
                       a \in {SubSeq(s, 1, Len(s) \div 2)},
                       b \in {SubSeq(s, Len(s) \div 2 + 1, Len(s))}} : TRUE

\* A continuation byte of a multi-byte sequence.
IsCont(b) == b >= 128 /\ b < 192

\* bytes.decode(): raises UnicodeDecodeError on an invalid sequence.  Only
\* one- and two-byte sequences are decoded; the bytes are decoded in two
\* parts cut where no sequence is split.
RECURSIVE Utf8Decode(_)
Utf8Decode(bs) ==
  LET bad == [ok |-> FALSE, s |-> <<>>]
  IN IF bs = <<>> THEN [ok |-> TRUE, s |-> <<>>]
     ELSE IF Len(bs) = 1
          THEN (IF bs[1] < 128 THEN [ok |-> TRUE, s |-> <<bs[1]>>] ELSE bad)
     ELSE IF Len(bs) = 2
          THEN (IF bs[1] < 128 /\ bs[2] < 128 THEN [ok |-> TRUE, s |-> bs]
                ELSE IF bs[1] >= 194 /\ bs[1] < 224 /\ IsCont(bs[2])
                THEN [ok |-> TRUE, s |-> <<(bs[1] - 192) * 64 + (bs[2] - 128)>>]
                ELSE bad)
     ELSE LET m0 == Len(bs) \div 2
              m == IF IsCont(bs[m0 + 1]) THEN m0 + 1 ELSE m0
          IN CHOOSE r \in {IF l.ok /\ t.ok THEN [ok |-> TRUE, s |-> l.s \o t.s] ELSE bad :
                             l \in {Utf8Decode(SubSeq(bs, 1, m))},
                             t \in {Utf8Decode(SubSeq(bs, m + 1, Len(bs)))}} : TRUE

\* ----------------------------------------------------------------- pathlib
\* Code points used by paths: "/" is 47 and "." is 46.
IsAbs(s) == Len(s) > 0 /\ s[1] = 47

\* The components of a path string: split at "/", dropping empty and "."
\* components (pathlib keeps ".." components).
RECURSIVE Components(_)
Components(s) ==
  LET slashes == {k \in 1..Len(s) : s[k] = 47}
      keep(c) == IF c = <<>> \/ c = <<46>> THEN <<>> ELSE <<c>>
  IN IF slashes = {} THEN keep(s)
     ELSE LET k == CHOOSE x \in slashes : \A y \in slashes : x <= y
          IN keep(SubSeq(s, 1, k - 1)) \o Components(SubSeq(s, k + 1, Len(s)))

RECURSIVE JoinParts(_)
JoinParts(c) ==
  IF c = <<>> THEN <<>>
  ELSE IF Len(c) = 1 THEN c[1]
  ELSE c[1] \o <<47>> \o JoinParts(Tail(c))

\* Text of a path with the given components.
PathText(abs, c) ==
  IF abs THEN <<47>> \o JoinParts(c)
  ELSE IF c = <<>> THEN <<46>> ELSE JoinParts(c)

\* str(Path(s))
PurePathStr(s) == PathText(IsAbs(s), Components(s))

\* str(Path(base) / s): an absolute right operand replaces the base.
JoinPath(base, s) ==
  IF IsAbs(s) THEN PurePathStr(s) ELSE PurePathStr(base \o <<47>> \o s)

\* str(Path(p).parent)
Parent(p) ==
  LET c == Components(p)
  IN IF c = <<>> THEN PurePathStr(p)
     ELSE PathText(IsAbs(p), SubSeq(c, 1, Len(c) - 1))

\* The place in the file system a path names, as the operating system
\* resolves it: absolute or relative to the working directory, with each
\* ".." removing the component before it (up counts the ".." that climb
\* above the working directory).
RECURSIVE ResolveFrom(_, _, _)
ResolveFrom(c, k, loc) ==
  IF k > Len(c) THEN loc
  ELSE IF c[k] = <<46, 46>>
       THEN IF loc.comps # <<>>
            THEN ResolveFrom(c, k + 1, [loc EXCEPT !.comps = SubSeq(@, 1, Len(@) - 1)])
            ELSE IF loc.abs THEN ResolveFrom(c, k + 1, loc)
            ELSE ResolveFrom(c, k + 1, [loc EXCEPT !.up = @ + 1])
  ELSE ResolveFrom(c, k + 1, [loc EXCEPT !.comps = Append(@, c[k])])

Resolve(p) == ResolveFrom(Components(p), 1, [abs |-> IsAbs(p), up |-> 0, comps |-> <<>>])

IsPrefix(a, b) == Len(a) <= Len(b) /\ SubSeq(b, 1, Len(a)) = a

\* loc is dir or lies below it.
Under(loc, dir) ==
  loc.abs = dir.abs /\ loc.up = dir.up /\ IsPrefix(dir.comps, loc.comps)

\* loc lies strictly below dir.
Inside(loc, dir) == Under(loc, dir) /\ loc # dir

\* --------------------------------------------------------- container codec
\* A file on disk: absent, or present with the given bytes.
NoFile == [exists |-> FALSE, bytes |-> <<>>]

File(bs) == [exists |-> TRUE, bytes |-> bs]

\* EncodeEntry with the two size fields in each other's place.
EncodeEntry_Swapped(e) ==
  LET l == PackB(Len(e.rel_path))
      t == PackIII(e.offset, e.comp_size, e.size)
  IN IF l.ok /\ t.ok THEN [ok |-> TRUE, bytes |-> l.bytes \o e.rel_path \o t.bytes]
     ELSE [ok |-> FALSE, bytes |-> <<>>]

\* The bytes of one file-table row (rel_path already encoded).
EncodeEntry(e) ==
  LET l == PackB(Len(e.rel_path))
      t == PackIII(e.offset, e.size, e.comp_size)
  IN IF l.ok /\ t.ok THEN [ok |-> TRUE, bytes |-> l.bytes \o e.rel_path \o t.bytes]
     ELSE [ok |-> FALSE, bytes |-> <<>>]

\* file_table_data: the rows of file_table one after another.
RECURSIVE TableData(_)
TableData(table) ==
  IF table = <<>> THEN [ok |-> TRUE, bytes |-> <<>>]
  ELSE LET h == EncodeEntry(Head(table))
           r == TableData(Tail(table))
       IN IF h.ok /\ r.ok THEN [ok |-> TRUE, bytes |-> h.bytes \o r.bytes]
          ELSE [ok |-> FALSE, bytes |-> <<>>]

\* A 32-byte header block with the given field values.
HeaderBlock(magic, version, flags, count, table_offset) ==
  LET c == PackH(count)
      t == PackI(table_offset)
  IN IF c.ok /\ t.ok
     THEN LET h == magic \o <<version>> \o <<flags>> \o c.bytes \o t.bytes
          IN [ok |-> TRUE, bytes |-> h \o Zeros(HeaderSize - Len(h))]
     ELSE [ok |-> FALSE, bytes |-> <<>>]

\* FinalHeader taking the table to start right behind the header.
FinalHeader_TableAfterHeader(count, table_offset) ==
  HeaderBlock(MAGIC, VERSION, FLAG_COMPRESSED, count, HeaderSize)

\* The final header VixlPacker.run writes.
FinalHeader(count, table_offset) ==
  HeaderBlock(MAGIC, VERSION, FLAG_COMPRESSED, count, table_offset)

\* ------------------------------------------------------------- unpack_vixl
\* The output directory handed to unpack_vixl: "out", below the working
\* directory, empty before the call.
OutputDir == <<111, 117, 116>>

\* Directories that exist before unpack_vixl runs: the output directory,
\* the directories above it, the working directory and those above it, "/".
PreExisting(loc) == loc.comps = <<>> \/ Under(Resolve(OutputDir), loc)

\* The for loop reading num_files rows at the table offset.
RECURSIVE ReadTable(_, _, _, _)
ReadTable(file, pos, n, acc) ==
  IF n = 0 THEN [ok |-> TRUE, err |-> "", files |-> acc]
  ELSE LET pl == UnpackB(ReadAt(file, pos, 1))
       IN IF ~pl.ok THEN [ok |-> FALSE, err |-> "struct.error", files |-> acc]
          ELSE LET raw == ReadAt(file, pos + 1, pl.val)
                   path == Utf8Decode(raw)
                   p2 == pos + 1 + Len(raw)
                   nums == ReadAt(file, p2, 12)
               IN IF ~path.ok THEN [ok |-> FALSE, err |-> "UnicodeDecodeError", files |-> acc]
                  ELSE IF Len(nums) # 12
                          \/ ~UnpackI(SubSeq(nums, 1, 4)).ok
                          \/ ~UnpackI(SubSeq(nums, 5, 8)).ok
                          \/ ~UnpackI(SubSeq(nums, 9, 12)).ok
                       THEN [ok |-> FALSE, err |-> "struct.error", files |-> acc]
                  ELSE ReadTable(file, p2 + 12, n - 1,
                         Append(acc, [path |-> path.s,
                                      offset |-> UnpackI(SubSeq(nums, 1, 4)).val,
                                      size |-> UnpackI(SubSeq(nums, 5, 8)).val,
                                      comp_size |-> UnpackI(SubSeq(nums, 9, 12)).val]))

\* The prefixes of a location, from its first component down to itself.
DirChain(loc) == {[loc EXCEPT !.comps = SubSeq(loc.comps, 1, k)] : k \in 1..Len(loc.comps)}

\* The for loop extracting each row: seek, read, decompress, mkdir, write.
\* out = [files, dirs]: the files written (location and bytes) and the
\* directories created so far.
RECURSIVE ExtractAll(_, _, _, _)
ExtractAll(file, files, k, out) ==
  IF k > Len(files) THEN [ok |-> TRUE, err |-> "", out |-> out]
  ELSE LET e == files[k]
           comp_data == ReadAt(file, HeaderSize + e.offset, e.comp_size)
           raw == Decompress(comp_data)
           out_path == JoinPath(OutputDir, e.path)
           ploc == Resolve(Parent(out_path))
           loc == Resolve(out_path)
           written == {w.loc : w \in out.files}
           dirs2 == out.dirs \cup {d \in DirChain(ploc) : ~PreExisting(d)}
       IN IF ~raw.ok THEN [ok |-> FALSE, err |-> "zlib.error", out |-> out]
          \* mkdir(parents=True, exist_ok=True): a file in the way raises
          ELSE IF DirChain(ploc) \cap written # {}
               THEN [ok |-> FALSE, err |-> "OSError", out |-> out]
          \* write_bytes: the target is a directory
          ELSE IF PreExisting(loc) \/ loc \in dirs2
               THEN [ok |-> FALSE, err |-> "OSError", out |-> [out EXCEPT !.dirs = dirs2]]
          ELSE ExtractAll(file, files, k + 1,
                 [files |-> {w \in out.files : w.loc # loc} \cup {[loc |-> loc, data |-> raw.data]},
                  dirs |-> dirs2])

NoOutput == [files |-> {}, dirs |-> {}]

\* UnpackVixl without the comparison of the first 4 bytes with MAGIC.
UnpackVixl_NoMagicCheck(f) ==
  LET file == f.bytes IN
  IF ~f.exists THEN [status |-> "error", err |-> "OSError", out |-> NoOutput]
  ELSE LET num_files == UnpackH(ReadAt(file, 6, 2))
           file_table_offset == UnpackI(ReadAt(file, 8, 4))
       IN IF ~num_files.ok \/ ~file_table_offset.ok
          THEN [status |-> "error", err |-> "struct.error", out |-> NoOutput]
          ELSE LET t == ReadTable(file, file_table_offset.val, num_files.val, <<>>)
               IN IF ~t.ok THEN [status |-> "error", err |-> t.err, out |-> NoOutput]
                  ELSE LET x == ExtractAll(file, t.files, 1, NoOutput)
                       IN [status |-> IF x.ok THEN "ok" ELSE "error",
                           err |-> x.err, out |-> x.out]

\* unpack_vixl(archive_path, output_dir) on a file with the given bytes
\* (or NoFile): the exception raised, if any, and what was written.
UnpackVixl(f) ==
  LET file == f.bytes IN
  IF ~f.exists THEN [status |-> "error", err |-> "OSError", out |-> NoOutput]
  ELSE IF ReadAt(file, 0, 4) # MAGIC
       THEN [status |-> "error", err |-> "ValueError", out |-> NoOutput]
  ELSE LET num_files == UnpackH(ReadAt(file, 6, 2))
           file_table_offset == UnpackI(ReadAt(file, 8, 4))
       IN IF ~num_files.ok \/ ~file_table_offset.ok
          THEN [status |-> "error", err |-> "struct.error", out |-> NoOutput]
          ELSE LET t == ReadTable(file, file_table_offset.val, num_files.val, <<>>)
               IN IF ~t.ok THEN [status |-> "error", err |-> t.err, out |-> NoOutput]
                  ELSE LET x == ExtractAll(file, t.files, 1, NoOutput)
                       IN [status |-> IF x.ok THEN "ok" ELSE "error",
                           err |-> x.err, out |-> x.out]

\* ------------------------------------------------------------------ inputs
\* A path of nbytes encoded bytes: a one-component name that ends in a
\* two-byte character (code point 233).
LongPath(nbytes) == [k \in 1..(nbytes - 1) |-> IF k = nbytes - 1 THEN 233 ELSE 97]

\* "d", the one directory that can be put in the window's list; the only
\* file it can hold is "d/b".
DirEntry == <<100>>

DirChild == <<100, 47, 98>>

\* Entries that can be in the window's list: "./a", "d", "/x", and two long
\* names around the capacity of the length byte.
EntryPool ==
  {<<46, 47, 97>>, DirEntry, <<47, 120>>, LongPath(UByteMax), LongPath(UByteMax + 1)}

\* Contents a file on disk can have.
Contents == {<<>>, <<7, 8>>}

\* The file a list entry stands for (the directory stands for its child).
FileOf(entry) == IF entry = DirEntry THEN DirChild ELSE PurePathStr(entry)

\* Lists without repetition (_add_file keeps the list free of duplicates).
ListsOver(S, n) ==
  {l \in UNION {[1..k -> S] : k \in 0..n} : \A a, b \in 1..Len(l) : a # b => l[a] # l[b]}

\* Path(path_str).read_bytes() on the disk.
ReadBytes(dsk, path_str) ==
  LET p == PurePathStr(path_str)
  IN IF p \in DOMAIN dsk /\ dsk[p].exists THEN [ok |-> TRUE, data |-> dsk[p].bytes]
     ELSE [ok |-> FALSE, data |-> <<>>]

\* file_entries built by pack_archive: a directory is replaced by the files
\* found below it, any other entry is kept.
RECURSIVE Expand(_, _)
Expand(list, dsk) ==
  IF list = <<>> THEN <<>>
  ELSE (IF Head(list) = DirEntry
        THEN (IF dsk[DirChild].exists THEN <<DirChild>> ELSE <<>>)
        ELSE <<PurePathStr(Head(list))>>) \o Expand(Tail(list), dsk)

\* rel_path = str(file).encode("utf-8"): the path as given, not made relative.
RelPath(path_str) == Utf8Encode(PurePathStr(path_str))

\* Placeholder that already is a header with the magic.
Placeholder_WithMagic == FinalHeader(0, HeaderSize).bytes

\* The placeholder header.
Placeholder == Zeros(HeaderSize)

\* Percent computed from the index i instead of i + 1.
Percent_FromIndex(k, total) == ((k - 1) * 100) \div total

\* int((i + 1) / total_files * 100) with k = i + 1.  For the totals of the
\* model the float product is the exact quotient rounded down.
Percent(k, total) == (k * 100) \div total

\* ------------------------------------------------- files handed to unpack
\* Largest number of rows in a hand-made container.
MaxEntries == 2

\* Paths a hand-made table can hold: "a", "d/b", "../e", "/x".
CraftPaths == {<<97>>, <<100, 47, 98>>, <<46, 46, 47, 101>>, <<47, 120>>}

\* Rows of a hand-made container: a path, a payload (a zlib stream or bytes
\* that are none) and what is added to the true size in the size field.
CraftEntries ==
  [path : CraftPaths, payload : {Compress(<<7, 8>>), <<0, 0, 0>>}, delta : {0, 1}]

RECURSIVE CraftRows(_, _)
CraftRows(entries, off) ==
  IF entries = <<>> THEN <<>>
  ELSE LET e == Head(entries)
           d == Decompress(e.payload)
       IN <<[rel_path |-> Utf8Encode(e.path), offset |-> off,
             size |-> (IF d.ok THEN Len(d.data) ELSE 0) + e.delta,
             comp_size |-> Len(e.payload)]>>
          \o CraftRows(Tail(entries), off + Len(e.payload))

RECURSIVE CraftData(_)
CraftData(entries) ==
  IF entries = <<>> THEN <<>> ELSE Head(entries).payload \o CraftData(Tail(entries))

\* A container laid out as VixlPacker.run lays it out, with any magic,
\* version and flags, and a count that may exceed the rows present.
Craft(magic, version, flags, extra, entries) ==
  HeaderBlock(magic, version, flags, Len(entries) + extra,
              HeaderSize + Len(CraftData(entries))).bytes
  \o CraftData(entries) \o TableData(CraftRows(entries, 0)).bytes

\* "VIXM"
OtherMagic == <<86, 73, 88, 77>>

\* Files a user can pick in unpack_archive: no file, files shorter than the
\* magic, and hand-made containers.
Crafted ==
  {NoFile, File(<<>>), File(<<86, 73>>)}
  \cup {File(Craft(m, v, fl, x, es)) :
          m \in {MAGIC, OtherMagic}, v \in {VERSION, VERSION + 1},
          fl \in {FLAG_COMPRESSED, FLAG_COMPRESSED + 1}, x \in {0, 1},
          es \in UNION {[1..n -> CraftEntries] : n \in 1..MaxEntries}}

\* ------------------------------------------------------------------- state
VARIABLES
  files,             \* VixlWindow.files
  disk,              \* the input files on disk: path text -> NoFile or File
  pack_button,       \* pack_button.isEnabled()
  progress_value,    \* progress.value()
  progress_visible,  \* progress.isVisible()
  queue,             \* signals emitted by the worker, not yet delivered
  workers,           \* worker threads started and not yet returned
  pc,                \* position of VixlPacker.run
  input_paths,       \* VixlPacker.input_paths
  i,                 \* inputs processed by the loop
  file_table,        \* file_table
  offset,            \* offset
  file_table_offset, \* file_table_offset
  archive,           \* the file at archive_path
  f_open,            \* f is open
  opened,            \* the current run has opened (truncated) the archive
  emitted,           \* values emitted on progress by the current run
  signals,           \* finished / error emitted by the current run
  u_container,       \* the file last handed to unpack_vixl
  u_result           \* what that call did: status, err, out

guivars == <<files, pack_button, progress_value, progress_visible>>
runvars == <<pc, input_paths, i, file_table, offset, file_table_offset, archive,
             f_open, opened, emitted, signals, workers>>
uvars == <<u_container, u_result>>
vars == <<guivars, disk, queue, runvars, uvars>>

NotRun == [status |-> "none", err |-> "", out |-> NoOutput]

InitRest ==
  /\ pack_button = TRUE
  /\ progress_value = 0
  /\ progress_visible = FALSE
  /\ queue = <<>>
  /\ workers = 0
  /\ pc = "idle"
  /\ input_paths = <<>>
  /\ i = 0
  /\ file_table = <<>>
  /\ offset = 0
  /\ file_table_offset = 0
  /\ f_open = FALSE
  /\ opened = FALSE
  /\ emitted = <<>>
  /\ signals = <<>>
  /\ u_container = NoFile
  /\ u_result = NotRun

\* The window with some files added, each present on disk with some content
\* or absent (removed after it was added).
Init ==
  /\ files \in ListsOver(EntryPool, MaxFiles)
  /\ disk \in [{FileOf(files[k]) : k \in 1..Len(files)} -> {NoFile} \cup {File(c) : c \in Contents}]
  /\ archive = NoFile
  /\ InitRest

\* ------------------------------------------------------------- VixlWindow
\* pack_archive: the click handler of pack_button (a disabled button sends
\* no click).  With an empty list it only shows a warning and changes
\* nothing; otherwise it disables the button, expands the list and starts a
\* VixlPacker thread.  Message boxes are not part of the state.
pack_archive ==
  /\ pack_button
  /\ files # <<>>
  /\ progress_visible' = TRUE
  /\ progress_value' = 0
  /\ pack_button' = FALSE
  /\ input_paths' = Expand(files, disk)
  /\ pc' = "start"
  /\ workers' = workers + 1
  /\ i' = 0
  /\ file_table' = <<>>
  /\ offset' = 0
  /\ file_table_offset' = 0
  /\ emitted' = <<>>
  /\ signals' = <<>>
  /\ opened' = FALSE
  /\ UNCHANGED <<files, disk, queue, archive, f_open, uvars>>

\* progress.setValue, the slot connected to the worker's progress signal.
setValue ==
  /\ queue # <<>>
  /\ Head(queue).sig = "progress"
  /\ progress_value' = Head(queue).val
  /\ queue' = Tail(queue)
  /\ UNCHANGED <<files, pack_button, progress_visible, disk, runvars, uvars>>

on_pack_done ==
  /\ queue # <<>>
  /\ Head(queue).sig = "finished"
  /\ pack_button' = TRUE
  /\ progress_visible' = FALSE
  /\ progress_value' = 100
  /\ queue' = Tail(queue)
  /\ UNCHANGED <<files, disk, runvars, uvars>>

on_pack_error ==
  /\ queue # <<>>
  /\ Head(queue).sig = "error"
  /\ pack_button' = TRUE
  /\ progress_visible' = FALSE
  /\ queue' = Tail(queue)
  /\ UNCHANGED <<files, progress_value, disk, runvars, uvars>>

\* unpack_archive on the file c with the output directory OutputDir.
unpack_archive(c) ==
  /\ u_container' = c
  /\ u_result' = UnpackVixl(c)
  /\ UNCHANGED <<files, pack_button, progress_value, progress_visible, disk, queue, runvars>>

\* ---------------------------------------------------------- VixlPacker.run
\* Raise that swallows the exception: run returns and emits nothing.
Raise_Silent(msg) ==
  /\ f_open' = FALSE
  /\ signals' = signals
  /\ queue' = queue
  /\ pc' = "done"
  /\ workers' = workers - 1

\* The except clause: leaving the with block closes f, then error is emitted.
\* msg is the kind of exception whose text the signal carries.
Raise(msg) ==
  /\ f_open' = FALSE
  /\ signals' = Append(signals, [sig |-> "error", val |-> msg])
  /\ queue' = Append(queue, [sig |-> "error", val |-> msg])
  /\ pc' = "done"
  /\ workers' = workers - 1

\* Entry of run up to the loop: the empty-list return, open(archive_path,
\* "wb") and the placeholder header.  open and write can fail.
RunOpen ==
  /\ pc = "start"
  /\ IF Len(input_paths) = 0
     THEN /\ Raise("No files to pack.")
          /\ UNCHANGED <<archive, opened, file_table, offset, i>>
     ELSE \E outcome \in {"open fails", "write fails", "ok"} :
            IF outcome = "open fails"
            THEN Raise("OSError") /\ UNCHANGED <<archive, opened, file_table, offset, i>>
            ELSE IF outcome = "write fails"
            THEN /\ Raise("OSError")
                 /\ archive' = File(<<>>)
                 /\ opened' = TRUE
                 /\ UNCHANGED <<file_table, offset, i>>
            ELSE /\ archive' = File(Placeholder)
                 /\ opened' = TRUE
                 /\ f_open' = TRUE
                 /\ file_table' = <<>>
                 /\ offset' = 0
                 /\ i' = 0
                 /\ pc' = "loop"
                 /\ UNCHANGED <<signals, queue, workers>>
  /\ UNCHANGED <<guivars, disk, input_paths, file_table_offset, emitted, uvars>>

\* One iteration of the loop over input_paths.
RunFile ==
  /\ pc = "loop"
  /\ i < Len(input_paths)
  /\ \E path_str \in {input_paths[i + 1]} :
     \E data \in {ReadBytes(disk, path_str)}, rel_path \in {RelPath(path_str)} :
     \E comp \in {Compress(data.data)} :
       LET row == [rel_path |-> rel_path, offset |-> offset,
                   size |-> Len(data.data), comp_size |-> Len(comp)]
           pct == Percent(i + 1, Len(input_paths))
       IN IF ~data.ok
          THEN Raise("OSError") /\ UNCHANGED <<archive, file_table, offset, i, emitted>>
          ELSE \E written \in BOOLEAN :
                 IF ~written
                 THEN /\ Raise("OSError")
                      /\ file_table' = Append(file_table, row)
                      /\ UNCHANGED <<archive, offset, i, emitted>>
                 ELSE /\ file_table' = Append(file_table, row)
                      /\ archive' = File(WriteAt(archive.bytes, Len(archive.bytes), comp))
                      /\ offset' = offset + Len(comp)
                      /\ emitted' = Append(emitted, pct)
                      /\ queue' = Append(queue, [sig |-> "progress", val |-> pct])
                      /\ i' = i + 1
                      /\ UNCHANGED <<pc, f_open, signals, workers>>
  /\ UNCHANGED <<guivars, disk, input_paths, file_table_offset, opened, uvars>>

\* After the loop: build file_table_data and write it at the end.
RunTable ==
  /\ pc = "loop"
  /\ i = Len(input_paths)
  /\ LET file_table_data == TableData(file_table)
     IN IF ~file_table_data.ok
        THEN Raise("struct.error") /\ UNCHANGED <<archive, file_table_offset>>
        ELSE \E written \in BOOLEAN :
               IF ~written
               THEN /\ Raise("OSError")
                    /\ file_table_offset' = Len(archive.bytes)
                    /\ UNCHANGED archive
               ELSE /\ file_table_offset' = Len(archive.bytes)
                    /\ archive' = File(WriteAt(archive.bytes, Len(archive.bytes),
                                               file_table_data.bytes))
                    /\ pc' = "header"
                    /\ UNCHANGED <<f_open, signals, queue, workers>>
  /\ UNCHANGED <<guivars, disk, input_paths, i, file_table, offset, emitted, opened, uvars>>

\* f.seek(0) and the final header.
RunHeader ==
  /\ pc = "header"
  /\ LET header == FinalHeader(Len(file_table), file_table_offset)
     IN IF ~header.ok
        THEN Raise("struct.error") /\ UNCHANGED archive
        ELSE \E written \in BOOLEAN :
               IF ~written
               THEN Raise("OSError") /\ UNCHANGED archive
               ELSE /\ archive' = File(WriteAt(archive.bytes, 0, header.bytes))
                    /\ pc' = "close"
                    /\ UNCHANGED <<f_open, signals, queue, workers>>
  /\ UNCHANGED <<guivars, disk, input_paths, i, file_table, offset, file_table_offset,
                 emitted, opened, uvars>>

\* Leaving the with block closes f; then finished is emitted and run returns.
RunFinish ==
  /\ pc = "close"
  /\ f_open' = FALSE
  /\ signals' = Append(signals, [sig |-> "finished", val |-> "archive_path"])
  /\ queue' = Append(queue, [sig |-> "finished", val |-> "archive_path"])
  /\ pc' = "done"
  /\ workers' = workers - 1
  /\ UNCHANGED <<guivars, disk, input_paths, i, file_table, offset, file_table_offset,
                 archive, emitted, opened, uvars>>

Run == RunOpen \/ RunFile \/ RunTable \/ RunHeader \/ RunFinish

Deliver == setValue \/ on_pack_done \/ on_pack_error

\* ---------------------------------------------------------- specifications
\* The window packing its list and unpacking the archive it packs to.
Next ==
  \/ pack_archive
  \/ setValue
  \/ on_pack_done
  \/ on_pack_error
  \/ unpack_archive(archive)
  \/ RunOpen
  \/ RunFile
  \/ RunTable
  \/ RunHeader
  \/ RunFinish

Spec == Init /\ [][Next]_vars

\* The worker and the window without unpack_archive.
NextPack ==
  \/ pack_archive
  \/ setValue
  \/ on_pack_done
  \/ on_pack_error
  \/ RunOpen
  \/ RunFile
  \/ RunTable
  \/ RunHeader
  \/ RunFinish

PackSpec == Init /\ [][NextPack]_vars

\* A started thread keeps running until run returns, and the event loop of
\* the window keeps delivering the queued signals.
FairPackSpec == PackSpec /\ WF_vars(Run) /\ WF_vars(Deliver)

\* unpack_archive alone, on a file picked from Crafted.
InitUnpack ==
  /\ files = <<>>
  /\ disk \in [{} -> {NoFile}]
  /\ archive \in Crafted
  /\ InitRest

NextUnpack == unpack_archive(archive)

SpecUnpack == InitUnpack /\ [][NextUnpack]_vars

\* ------------------------------------------------------- reading a state
Range(q) == {q[k] : k \in 1..Len(q)}

\* The current run emitted finished / error.
Finished == pc = "done" /\ Len(signals) = 1 /\ signals[1].sig = "finished"

Failed == pc = "done" /\ Len(signals) = 1 /\ signals[1].sig = "error"

\* unpack_vixl has been called, and the file it was given.
Unpacked == u_result.status # "none"

HasMagic(f) == f.exists /\ ReadAt(f.bytes, 0, 4) = MAGIC

\* The table of a container whose header carries the magic.
TableOf(f) ==
  ReadTable(f.bytes, UnpackI(ReadAt(f.bytes, 8, 4)).val,
            UnpackH(ReadAt(f.bytes, 6, 2)).val, <<>>)

Parsable(f) ==
  /\ HasMagic(f)
  /\ UnpackH(ReadAt(f.bytes, 6, 2)).ok
  /\ UnpackI(ReadAt(f.bytes, 8, 4)).ok
  /\ TableOf(f).ok

\* The payload bytes of a table row.
PayloadOf(f, e) == ReadAt(f.bytes, HeaderSize + e.offset, e.comp_size)

OutLoc == Resolve(OutputDir)

\* Where output_dir / p lies: below the output directory for a relative p,
\* at p itself for an absolute p.
ExpectedLoc(p) == IF IsAbs(p) THEN Resolve(p) ELSE Resolve(OutputDir \o <<47>> \o p)

\* A table path that leaves the output directory: absolute or with "..".
Escapes(p) == IsAbs(p) \/ <<46, 46>> \in Range(Components(p))

EncodedLen(p) == Len(Utf8Encode(p))

C2_PathTraversalSafety ==
  Unpacked =>
     /\ (Parsable(u_container) /\ (\E e \in Range(TableOf(u_container).files) : Escapes(e.path)))
           => /\ u_result.status = "error"
              /\ \A w \in u_result.out.files : Inside(w.loc, OutLoc)
     /\ u_result.status = "ok" => \A w \in u_result.out.files : Inside(w.loc, OutLoc)

\* C3: failure atomicity of pack.  From the open of the archive up to the
\* final header write the header block is the all-zero placeholder (or the
\* file is still empty), so it never carries the magic; a run that fails
\* after the open emits error and not finished, leaves such a file, and
\* unpack_vixl on it fails.
C3_FailureAtomicity ==
  /\ (pc \in {"loop", "header"} \/ (Failed /\ opened)) =>
        /\ archive.exists
        /\ ReadAt(archive.bytes, 0, HeaderSize) \in {Zeros(HeaderSize), <<>>}
        /\ ~HasMagic(archive)
  /\ (Failed /\ opened) =>
        /\ \A k \in 1..Len(signals) : signals[k].sig # "finished"
        /\ UnpackVixl(archive).status = "error"
        /\ UnpackVixl(archive).out = NoOutput

C3_Witness ==
  /\ Failed /\ opened
  /\ Len(archive.bytes) > HeaderSize
  /\ Unpacked /\ u_container = archive /\ u_result.status = "error"

\* C4: integrity check.  A container with a row whose size field differs
\* from the length of its decompressed payload makes unpack_vixl fail.
C4_IntegrityCheck ==
  (Unpacked /\ Parsable(u_container)
     /\ \E e \in Range(TableOf(u_container).files) :
          /\ Decompress(PayloadOf(u_container, e)).ok
          /\ Len(Decompress(PayloadOf(u_container, e)).data) # e.size)
  => u_result.status = "error"

\* C5: bad-magic rejection.  A file whose first 4 bytes are not the magic
\* (shorter files included) makes unpack_vixl raise its ValueError before
\* any row is read; no directory is created and no file written.
C5_BadMagicRejected ==
  (Unpacked /\ u_container.exists /\ ReadAt(u_container.bytes, 0, 4) # MAGIC) =>
     /\ u_result.status = "error"
     /\ u_result.err = "ValueError"
     /\ u_result.out = NoOutput

\* A container rejected for its magic alone: behind the header it holds a
\* table and payloads that would extract.
C5_Witness ==
  /\ Unpacked /\ u_container.exists
  /\ ReadAt(u_container.bytes, 0, 4) = OtherMagic
  /\ u_result.status = "error"
  /\ UnpackVixl(File(WriteAt(u_container.bytes, 0, MAGIC))).status = "ok"

\* C6: header validation.  A container whose version byte is not VERSION
\* or whose flag byte is not FLAG_COMPRESSED makes unpack_vixl fail
\* without writing any output.
C6_HeaderValidation ==
  (Unpacked /\ HasMagic(u_container) /\ Len(u_container.bytes) >= 6
     /\ (u_container.bytes[5] # VERSION \/ u_container.bytes[6] # FLAG_COMPRESSED))
  => /\ u_result.status = "error"
     /\ u_result.out = NoOutput

\* C7: progress.  Every emitted value is in 0..100, the values never
\* decrease, one value has been emitted for each input whose payload has
\* been written, 100 is emitted only for the last input, and a run that
\* finished emitted one value per input, the last being 100.
C7_Progress ==
  /\ \A k \in 1..Len(emitted) : emitted[k] \in 0..100
  /\ \A k \in 1..(Len(emitted) - 1) : emitted[k] <= emitted[k + 1]
  /\ opened => Len(emitted) = i
  /\ \A k \in 1..Len(emitted) : emitted[k] = 100 => k = Len(input_paths)
  /\ Finished => /\ Len(emitted) = Len(input_paths)
                 /\ emitted[Len(emitted)] = 100

C7_Witness == Finished /\ Len(emitted) >= 2 /\ emitted[1] < 100

\* C8: offset bookkeeping.  In the container of a finished run the table
\* lists the inputs in order, the first offset is 0, each later offset is
\* the previous offset plus the previous compressed size, compressed sizes
\* are positive, the header count is the number of inputs and the table
\* offset is 32 plus the sum of the compressed sizes.
C8_OffsetBookkeeping ==
  Finished =>
    /\ Parsable(archive)
    /\ LET t == TableOf(archive).files
       IN /\ UnpackH(ReadAt(archive.bytes, 6, 2)).val = Len(input_paths)
          /\ Len(t) = Len(input_paths)
          /\ \A k \in 1..Len(t) :
               /\ t[k].path = input_paths[k]
               /\ t[k].comp_size > 0
               /\ t[k].comp_size = Len(Compress(disk[input_paths[k]].bytes))
               /\ t[k].offset = IF k = 1 THEN 0 ELSE t[k - 1].offset + t[k - 1].comp_size
          /\ UnpackI(ReadAt(archive.bytes, 8, 4)).val
               = HeaderSize + SumSeq([k \in 1..Len(t) |-> t[k].comp_size])

C8_Witness ==
  /\ Finished /\ Len(input_paths) >= 2
  /\ Parsable(archive) /\ TableOf(archive).files[2].offset > 0

\* C9: capacity of the 1-byte length prefix.  A run never finishes with an
\* input whose encoded path is longer than 255 bytes: reaching the table
\* with one ends the run with the struct error, and that error has no other
\* cause; a path of exactly 255 bytes is written with its length byte and
\* comes back unchanged from unpack_vixl.
C9_PathCapacity ==
  /\ Finished => \A p \in Range(input_paths) : EncodedLen(p) <= UByteMax
  /\ (Failed /\ signals[1].val = "struct.error")
        <=> (pc = "done" /\ i = Len(input_paths) /\ opened /\ ~HasMagic(archive)
             /\ file_table_offset = 0
             /\ \E p \in Range(input_paths) : EncodedLen(p) > UByteMax)
  /\ Finished =>
       \A k \in 1..Len(input_paths) :
          EncodedLen(input_paths[k]) = UByteMax =>
             /\ Parsable(archive)
             /\ TableOf(archive).files[k].path = input_paths[k]
             /\ (Unpacked /\ u_container = archive) =>
                  \E w \in u_result.out.files : w.loc = ExpectedLoc(input_paths[k])

C9_Witness ==
  /\ Finished /\ Unpacked /\ u_container = archive /\ u_result.status = "ok"
  /\ \E p \in Range(input_paths) : EncodedLen(p) = UByteMax /\ Len(p) < UByteMax

\* C10: terminal signal.  A run emits at most one of finished and error,
\* and exactly one by the time it returns; an empty list gives error with
\* no archive created; finished comes only after the final header is in
\* the file and the file is closed; the button is disabled while a worker
\* runs, so no second worker is started, and it is enabled again.
C10_TerminalSignal ==
  /\ [](Len(signals) <= 1)
  /\ [](pc = "done" => Len(signals) = 1)
  /\ []((pc = "done" /\ input_paths = <<>>) => (Failed /\ ~opened /\ ~archive.exists))
  /\ []((\E k \in 1..Len(signals) : signals[k].sig = "finished")
          => (HasMagic(archive) /\ ~f_open))
  /\ [](workers \in {0, 1})
  /\ [](workers = 1 => ~pack_button)
  /\ (pc = "start" ~> pc = "done")
  /\ (~pack_button ~> pack_button)

C10_Witness == Finished /\ queue = <<>> /\ pack_button /\ workers = 0

====
